---- MODULE Spec2Model ----
(***************************************************************************)
(* Model of the paperg backend (functions/api/[[path]].js): the router     *)
(* onRequest, the CORS preflight, the login handler and the chat handler   *)
(* that proxies one message to the LLM API, gated by a code looked up in   *)
(* the KV namespace; and of the page (public/script.js) that logs in,     *)
(* sends messages and starts new chats.                                    *)
(*                                                                         *)
(* JavaScript strings are sequences of one-character strings.  Two kinds   *)
(* of longer tokens stand for a whole piece of text: "@meta" is one match  *)
(* of the name="..." content="..." pattern the chat handler removes, and   *)
(* the tokens of LitNames are the text of one complete JSON value in an    *)
(* LLM response body.                                                      *)
(***************************************************************************)
EXTENDS Integers, Sequences, FiniteSets, Bags, TLC

VARIABLES kv, env, inflight, last

(* The page: its two state variables, the elements it reads and writes,   *)
(* and the bag of the handlers that wait for an answer.                    *)
VARIABLES isLoggedIn, userLoginCode, loginCodeInput, loginButton, loginStatus,
          newChatButton, messageInput, sendButton, chatWindow, pending

(* The state of the workflow the workflow page keeps from the last reply;  *)
(* public/script.js has no such variable.                                  *)
VARIABLE currentAppState

server == <<kv, env, inflight, last>>

page == <<isLoggedIn, userLoginCode, loginCodeInput, loginButton, loginStatus,
          newChatButton, messageInput, sendButton, chatWindow, pending,
          currentAppState>>

vars == <<server, page>>

(* The number of chat requests that may wait for the LLM at once. *)
MaxInflight == 2

(* The number of handlers of the page that may wait for an answer at once. *)
MaxPending == 2

(* The number of bubbles the chat window may hold. *)
MaxBubbles == 5


-----------------------------------------------------------------------------
(* JavaScript values *)

Undefined == [t |-> "undefined"]

Null == [t |-> "null"]

Str(s) == [t |-> "string", s |-> s]

Num(n) == [t |-> "number", n |-> n]

Arr(items) == [t |-> "array", items |-> items]

(* An object of an LLM result: only the properties the handler reads. *)
Obj(choices, response, output, text, content) ==
  [t |-> "object", choices |-> choices, response |-> response,
   output |-> output, text |-> text, content |-> content]

EmptyObj == Obj(Undefined, Undefined, Undefined, Undefined, Undefined)

(* !v is false *)
Truthy(v) ==
  CASE v.t = "undefined" -> FALSE
    [] v.t = "null" -> FALSE
    [] v.t = "string" -> v.s # <<>>
    [] v.t = "number" -> v.n # 0
    [] OTHER -> TRUE

(* a || b *)
JsOr(a, b) == IF Truthy(a) THEN a ELSE b

Nullish(v) == v.t \in {"undefined", "null"}

-----------------------------------------------------------------------------
(* Strings *)

IsWs(c) == c \in {" ", "\n"}

(* The least length of a match of name=["'][^"']*["']\s*content=["'][^"']*["'] *)
MetaLen == 17

(* String.prototype.length *)
RECURSIVE StrLen(_)
StrLen(s) ==
  IF s = <<>> THEN 0
  ELSE (IF Head(s) = "@meta" THEN MetaLen ELSE 1) + StrLen(Tail(s))

RECURSIVE TrimStart(_)
TrimStart(s) ==
  IF s # <<>> /\ IsWs(Head(s)) THEN TrimStart(Tail(s)) ELSE s

RECURSIVE TrimEnd(_)
TrimEnd(s) ==
  IF s # <<>> /\ IsWs(s[Len(s)]) THEN TrimEnd(SubSeq(s, 1, Len(s) - 1)) ELSE s

(* String.prototype.trim *)
Trim(s) == TrimEnd(TrimStart(s))

(* replace(/<[^>]*>/g, ''): from each "<" through the next ">" *)
RECURSIVE StripTags(_)
StripTags(s) ==
  IF s = <<>> THEN <<>>
  ELSE IF Head(s) = "<" /\ \E i \in 2..Len(s) : s[i] = ">"
       THEN LET j == CHOOSE i \in 2..Len(s) :
                       s[i] = ">" /\ \A k \in 2..(i - 1) : s[k] # ">"
            IN  StripTags(SubSeq(s, j + 1, Len(s)))
       ELSE <<Head(s)>> \o StripTags(Tail(s))

(* replace(/name=["'][^"']*["']\s*content=["'][^"']*["']/gi, '') *)
RemoveMeta(s) == SelectSeq(s, LAMBDA c : c # "@meta")

(* replace(/\n{3,}/g, '\n\n') *)
RECURSIVE CollapseNewlines(_)
CollapseNewlines(s) ==
  IF s = <<>> THEN <<>>
  ELSE IF Len(s) >= 3 /\ s[1] = "\n" /\ s[2] = "\n" /\ s[3] = "\n"
       THEN CollapseNewlines(Tail(s))
       ELSE <<Head(s)>> \o CollapseNewlines(Tail(s))

(* The cleaning of the user message; the caller has checked that the      *)
(* message is a string.                                                    *)
ShortCleanLimit == 5

cleanUserMessage(userMessage) ==
  LET cleaned == Trim(CollapseNewlines(RemoveMeta(StripTags(userMessage))))
  IN  IF StrLen(cleaned) < ShortCleanLimit /\ StrLen(userMessage) > StrLen(cleaned)
      THEN Trim(userMessage)
      ELSE cleaned

-----------------------------------------------------------------------------
(* Login codes and the KV namespace *)

CodeA == <<"1", "2", "3", "4", "5", "6", "7", "8", "9", "0">>

CodeB == <<"0", "9", "8", "7", "6", "5", "4", "3", "2", "1">>

CodeX == <<"a", "b", "c">>

Codes == {CodeA, CodeB, CodeX}

Digits == {"0", "1", "2", "3", "4", "5", "6", "7", "8", "9"}

CodeLen == 10

(* A check of the length alone. *)
IsTenDigits_LengthOnly(c) == Len(c) = CodeLen

(* /^\d{10}$/ *)
IsTenDigits(c) == Len(c) = CodeLen /\ \A i \in 1..Len(c) : c[i] \in Digits

(* What KV_NAMESPACE.get answers for a key that does not exist. *)
NULL == [t |-> "null"]

UserTurn(m) == [role |-> "user", content |-> m]

AssistantTurn(m) == [role |-> "assistant", content |-> m]

(* Values a key may hold: a state with a conversation history, or text    *)
(* that is no such state.                                                  *)
KvState(h) == [t |-> "state", conversation_history |-> h]

Hist0 == <<>>

Hist1 == <<UserTurn(<<"q">>), AssistantTurn(<<"r">>)>>

Corrupt == [t |-> "string", s |-> <<"?">>]

KvChoices(c) ==
  IF c = CodeA THEN {NULL, KvState(Hist1)}
  ELSE IF c = CodeB THEN {NULL, Corrupt}
  ELSE {NULL, KvState(Hist0)}

KvStores == {s \in [Codes -> {NULL, KvState(Hist0), KvState(Hist1), Corrupt}] :
               \A c \in Codes : s[c] \in KvChoices(c)}

(* One read of the namespace: the key asked for and the value answered. *)
KvRead(key, value) == [key |-> key, value |-> value]

(* A lookup that ignores the key it is given. *)
KvGet_SharedKey(key) == KvRead(CodeA, kv[CodeA])

(* env.KV_NAMESPACE.get(key) *)
KvGet(key) == KvRead(key, IF key \in DOMAIN kv THEN kv[key] ELSE NULL)

-----------------------------------------------------------------------------
(* The environment of the worker *)

DefaultBaseUrl == "https://api.openai.com/v1"

Envs == [KV_NAMESPACE : BOOLEAN, OPENAI_API_KEY : BOOLEAN,
         API_ENDPOINT : {"", "not a url"}]

(* new URL("/chat/completions", base) does not throw *)
UrlOk(base) == base = DefaultBaseUrl

-----------------------------------------------------------------------------
(* Requests *)

CTypes == {"", "application/json; charset=utf-8", "text/plain"}

(* request.headers.get('content-type')?.includes('application/json') *)
CtIncludesJson(ct) == ct = "application/json; charset=utf-8"

Body(code, message) == [kind |-> "object", code |-> code, message |-> message]

BodyCodes == {Undefined, Str(<<>>)} \cup {Str(c) : c \in Codes}

MsgTagged == <<"<", "b", ">", "h", "i", "<", "/", "b", ">", "\n">>

MsgMeta == <<"<", "i", ">", "@meta", "t", "h", "e", "s", "i", "s", "\n", "\n", "\n", "?", " ">>

BodyMessages ==
  {Undefined, Str(<<>>), Num(5), Str(MsgTagged), Str(MsgMeta)}

BrokenBodies == {[kind |-> "invalid"], [kind |-> "null"]}

LoginBodies == BrokenBodies \cup {Body(c, Undefined) : c \in BodyCodes}

ChatBodies == BrokenBodies \cup {Body(c, m) : c \in BodyCodes, m \in BodyMessages}

Req(path, method, ctype, body) ==
  [path |-> path, method |-> method, ctype |-> ctype, body |-> body]

Paths == {"/api/login", "/api/chat", "/api/reset", "/index.html"}

Methods == {"POST", "GET", "OPTIONS"}

IsLoginRoute(r) == r.path = "/api/login" /\ r.method = "POST"

IsChatRoute(r) == r.path = "/api/chat" /\ r.method = "POST"

LoginRequests == {Req("/api/login", "POST", ct, b) : ct \in CTypes, b \in LoginBodies}

ChatRequests == {Req("/api/chat", "POST", ct, b) : ct \in CTypes, b \in ChatBodies}

OtherRequests ==
  {r \in {Req(p, m, "application/json; charset=utf-8", Body(Str(c), Undefined)) :
            p \in Paths, m \in Methods, c \in Codes} :
     ~IsLoginRoute(r) /\ ~IsChatRoute(r)}

Requests == LoginRequests \cup ChatRequests \cup OtherRequests

-----------------------------------------------------------------------------
(* Responses: status, the body as the record of its JSON properties (or   *)
(* its text), and the headers the router adds.  Free text that no caller  *)
(* reads (details, message, suggestion, ...) is kept as "...".             *)

JsonResponse(status, body) ==
  [status |-> status, kind |-> "json", body |-> body, cors |-> FALSE, maxAge |-> FALSE]

TextResponse(status, text) ==
  [status |-> status, kind |-> "text", body |-> [text |-> text],
   cors |-> FALSE, maxAge |-> FALSE]

HasField(b, f) == f \in DOMAIN b

(* What a handler hands back: its response, the reads of KV it made, the  *)
(* message arrays it sent to the LLM API and the answers it got to them.  *)
Outcome(resp, reads, llm, answers) ==
  [resp |-> resp, kvReads |-> reads, llm |-> llm, answers |-> answers]

(* A handler that returns before any fetch *)
Returned(resp, reads) == Outcome(resp, reads, <<>>, <<>>)

-----------------------------------------------------------------------------
(* A preflight answer without Access-Control-Max-Age. *)
handleOptions_NoMaxAge ==
  [status |-> 204, kind |-> "empty", body |-> [text |-> ""], cors |-> TRUE, maxAge |-> FALSE]

(* handleOptions *)
handleOptions ==
  [status |-> 204, kind |-> "empty", body |-> [text |-> ""], cors |-> TRUE, maxAge |-> TRUE]

(* A login that accepts whatever the lookup answered. *)
LoginVerdict_AcceptAll(kvValue) ==
  JsonResponse(200, [success |-> TRUE, message |-> "..."])

(* if (kvValue !== null) ... else ... of handleLoginRequest *)
LoginVerdict(kvValue) ==
  IF kvValue # NULL
  THEN JsonResponse(200, [success |-> TRUE, message |-> "..."])
  ELSE JsonResponse(401, [success |-> FALSE, error |-> "Invalid login code."])

(* handleLoginRequest *)
handleLoginRequest(r) ==
  IF ~CtIncludesJson(r.ctype)
  THEN Returned(JsonResponse(400, [error |-> "Invalid request body type. Expected JSON."]), <<>>)
  ELSE IF r.body.kind = "invalid"
  THEN Returned(JsonResponse(400, [error |-> "Invalid JSON format in request body."]), <<>>)
  ELSE IF r.body.kind = "null"
  THEN (* body.code throws; the handler's catch answers *)
       Returned(JsonResponse(500, [error |-> "Failed to process login request.",
                                   details |-> "..."]), <<>>)
  ELSE IF ~Truthy(r.body.code)
  THEN Returned(JsonResponse(400, [error |-> "Login code is required."]), <<>>)
  ELSE IF ~env.KV_NAMESPACE
  THEN Returned(JsonResponse(500,
         [error |-> "Server configuration error: KV Namespace not bound."]), <<>>)
  ELSE LET providedCode == r.body.code.s
           read == KvGet(providedCode)
       IN  Returned(LoginVerdict(read.value), <<read>>)

-----------------------------------------------------------------------------
(* The LLM API: what the fetch of /chat/completions may answer *)

(* env.SYSTEM_PROMPT || "You are a helpful assistant." *)
SystemPrompt == <<"@system">>

Choice(message) == [t |-> "object", message |-> message]

Message(content) == [t |-> "object", content |-> content]

OneChoice(content) ==
  Obj(Arr(<<Choice(Message(content))>>), Undefined, Undefined, Undefined, Undefined)

LitNames ==
  {"#null", "#num", "#strBlank", "#str", "#objReply", "#objBlank", "#objNumContent",
   "#objNoMessage", "#objResponse", "#objOutputBlank", "#objTextNum", "#objContentEmpty"}

(* The value a token of LitNames is the JSON text of. *)
LitValue(tok) ==
  CASE tok = "#null" -> Null
    [] tok = "#num" -> Num(5)
    [] tok = "#strBlank" -> Str(<<" ">>)
    [] tok = "#str" -> Str(<<" ", "a">>)
    [] tok = "#objReply" -> OneChoice(Str(<<" ", "h", "i", " ">>))
    [] tok = "#objBlank" -> OneChoice(Str(<<" ">>))
    [] tok = "#objNumContent" ->
         Obj(Arr(<<Choice(Message(Num(5)))>>), Str(<<"a">>), Undefined, Undefined, Undefined)
    [] tok = "#objNoMessage" ->
         Obj(Arr(<<Choice(Undefined)>>), Undefined, Undefined, Undefined, Undefined)
    [] tok = "#objResponse" ->
         Obj(Arr(<<>>), Str(<<"a">>), Undefined, Undefined, Undefined)
    [] tok = "#objOutputBlank" ->
         Obj(Undefined, Undefined, Str(<<" ">>), Undefined, Undefined)
    [] tok = "#objTextNum" ->
         Obj(Null, Str(<<>>), Undefined, Num(5), Undefined)
    [] OTHER ->
         Obj(Arr(<<Choice(Message(Str(<<>>)))>>), Undefined, Undefined, Undefined, Str(<<>>))

IsObjLit(tok) == tok \in LitNames /\ LitValue(tok).t = "object"

LlmBodies ==
  {<<>>, <<" ">>, <<"a">>, <<" ", "a", " ">>, <<"}", "{">>, <<"{", "}">>,
   <<"{", " ", "}", "\n">>, <<"a", "{", "}">>, <<"{", "a", "}">>,
   <<"a", "#objReply">>, <<"a", "#objBlank", "a">>, <<"#str", "a">>}
  \cup {<<tok>> : tok \in LitNames}

ErrBodies == {<<>>, <<"a">>}

ErrStatuses == {401, 429, 503}

(* llmResponse.ok *)
LlmOk(status) == status >= 200 /\ status <= 299

LlmAnswers ==
  {[kind |-> "throw", status |-> 0, body |-> <<>>]}
  \cup {[kind |-> "http", status |-> 200, body |-> b] : b \in LlmBodies}
  \cup {[kind |-> "http", status |-> 201, body |-> <<"#objReply">>]}
  \cup {[kind |-> "http", status |-> s, body |-> b] : s \in ErrStatuses, b \in ErrBodies}

(* JSON.parse: the value, or ok = FALSE where it throws *)
JsonParse(text) ==
  LET t == Trim(text)
  IN  IF Len(t) = 1 /\ t[1] \in LitNames
      THEN [ok |-> TRUE, v |-> LitValue(t[1])]
      ELSE IF Len(t) >= 2 /\ t[1] = "{" /\ t[Len(t)] = "}"
              /\ \A i \in 2..(Len(t) - 1) : IsWs(t[i])
      THEN [ok |-> TRUE, v |-> EmptyObj]
      ELSE [ok |-> FALSE, v |-> Undefined]

(* rawText.indexOf('{'), as a position from 1; 0 where JavaScript answers -1 *)
IndexOfOpen(text) ==
  LET hits == {i \in 1..Len(text) : text[i] = "{" \/ IsObjLit(text[i])}
  IN  IF hits = {} THEN 0 ELSE CHOOSE i \in hits : \A j \in hits : i <= j

(* rawText.lastIndexOf('}') *)
LastIndexOfClose(text) ==
  LET hits == {i \in 1..Len(text) : text[i] = "}" \/ IsObjLit(text[i])}
  IN  IF hits = {} THEN 0 ELSE CHOOSE i \in hits : \A j \in hits : i >= j

-----------------------------------------------------------------------------
(* handleChatRequest, up to the fetch of the LLM API *)

ChatError(status, error) == JsonResponse(status, [error |-> error])

ChatCaught ==
  JsonResponse(500, [error |-> "Failed to process chat request.", details |-> "..."])

Answered(resp, reads) == [done |-> TRUE, out |-> Returned(resp, reads)]

(* const messages = [ {system}, {user: cleanedUserMessage} ] *)
LlmMessages(kvValue, cleanedUserMessage) ==
  <<[role |-> "system", content |-> SystemPrompt], UserTurn(cleanedUserMessage)>>

(* A gate that tests for undefined where get answers null. *)
CodeRejected_Undefined(kvValue) == kvValue = Undefined

(* kvValue === null *)
CodeRejected(kvValue) == kvValue = NULL

ChatPrepare(r) ==
  IF ~CtIncludesJson(r.ctype)
  THEN Answered(ChatError(400, "Invalid request body type. Expected JSON."), <<>>)
  ELSE IF r.body.kind = "invalid"
  THEN Answered(JsonResponse(400, [error |-> "Invalid JSON format in request body.",
                                   details |-> "..."]), <<>>)
  ELSE IF r.body.kind = "null"
  THEN (* body.message throws *)
       Answered(ChatCaught, <<>>)
  ELSE IF ~Truthy(r.body.message) \/ ~Truthy(r.body.code)
  THEN Answered(ChatError(400, "Message and login code are required."), <<>>)
  ELSE IF r.body.message.t # "string"
  THEN (* replace is no function of it, and neither is the trim of the catch *)
       Answered(ChatCaught, <<>>)
  ELSE IF ~env.KV_NAMESPACE
  THEN Answered(ChatError(500, "Server configuration error: KV Namespace not bound."), <<>>)
  ELSE LET loginCode == r.body.code.s
           read == KvGet(loginCode)
           kvValue == read.value
           reads == <<read>>
           apiBaseUrl == IF env.API_ENDPOINT # "" THEN env.API_ENDPOINT ELSE DefaultBaseUrl
       IN  IF CodeRejected(kvValue)
           THEN Answered(ChatError(401, "Invalid or expired login code."), reads)
           ELSE IF ~env.OPENAI_API_KEY
           THEN Answered(ChatError(500, "Server configuration error: Missing API Key."), reads)
           ELSE IF ~UrlOk(apiBaseUrl)
           THEN Answered(JsonResponse(500,
                  [error |-> "Server configuration error: Invalid API Endpoint URL format.",
                   details |-> "..."]), reads)
           ELSE [done |-> FALSE,
                 call |-> [req |-> r, kvReads |-> reads,
                           messages |-> LlmMessages(kvValue, cleanUserMessage(r.body.message.s))]]

-----------------------------------------------------------------------------
(* handleChatRequest, from the answer of the LLM API on *)

(* A handler that stores an emptied state under the code it served. *)
KvAfterChat_Stores(loginCode) == [kv EXCEPT ![loginCode] = KvState(<<>>)]

(* KV when handleChatRequest has returned: the handler calls get and      *)
(* nothing else of the namespace.                                          *)
KvAfterChat(loginCode) == kv

(* An upstream error wrapped as a 500 of this service. *)
LlmErrorResponse_Wrapped(status) ==
  JsonResponse(500, [error |-> "Failed to get response from AI service.",
                     llm_status |-> status, llm_details |-> "..."])

(* The response to a non-2xx answer *)
LlmErrorResponse(status) ==
  JsonResponse(status, [error |-> "Failed to get response from AI service.",
                        details |-> "...", status |-> status])

ParseFailed ==
  JsonResponse(500, [error |-> "Failed to parse AI response.", details |-> "...",
                     suggestion |-> "..."])

RawTextReply(rawText) ==
  JsonResponse(200, [reply |-> Str(Trim(rawText)), warning |-> "..."])

(* llmResult.choices?.[0]?.message?.content?.trim(): the value, or threw = TRUE *)
ChoiceContent(llmResult) ==
  IF llmResult.t = "null" THEN [threw |-> TRUE, v |-> Undefined]
  ELSE IF llmResult.t # "object" THEN [threw |-> FALSE, v |-> Undefined]
  ELSE IF Nullish(llmResult.choices) \/ llmResult.choices.items = <<>>
  THEN [threw |-> FALSE, v |-> Undefined]
  ELSE LET first == llmResult.choices.items[1]
       IN  IF Nullish(first.message) \/ Nullish(first.message.content)
           THEN [threw |-> FALSE, v |-> Undefined]
           ELSE IF first.message.content.t = "string"
           THEN [threw |-> FALSE, v |-> Str(Trim(first.message.content.s))]
           ELSE [threw |-> TRUE, v |-> Undefined]

(* llmResult.response || llmResult.output || llmResult.text || llmResult.content *)
OtherFields(llmResult) ==
  IF llmResult.t # "object" THEN Undefined
  ELSE JsOr(JsOr(JsOr(llmResult.response, llmResult.output), llmResult.text),
            llmResult.content)

(* The try block that sets aiReply *)
ExtractReply(llmResult) ==
  LET c == ChoiceContent(llmResult)
  IN  IF c.threw THEN Undefined
      ELSE IF Truthy(c.v) THEN c.v
      ELSE LET alt == OtherFields(llmResult)
           IN  IF ~Truthy(alt) /\ llmResult.t = "string"
               THEN Str(Trim(llmResult.s))
               ELSE alt

(* A check that only catches a reply that was never set. *)
ReplyMissing_UndefinedOnly(aiReply) == aiReply.t = "undefined"

(* if (!aiReply) *)
ReplyMissing(aiReply) == ~Truthy(aiReply)

(* From the parsed result to the response *)
ReplyResponse(llmResult) ==
  LET aiReply == ExtractReply(llmResult)
  IN  IF ReplyMissing(aiReply)
      THEN IF Nullish(llmResult)
           THEN (* Object.keys(llmResult) throws *)
                ChatCaught
           ELSE JsonResponse(500, [error |-> "Failed to parse AI response (content missing).",
                                   responseStructure |-> "..."])
      ELSE JsonResponse(200, [reply |-> aiReply])

(* The catch of llmResponse.json(): the raw text of the clone *)
RawTextResponse(rawText) ==
  IF rawText # <<>> /\ Trim(rawText) # <<>>
  THEN LET jsonStartIndex == IndexOfOpen(rawText)
           jsonEndIndex == LastIndexOfClose(rawText)
       IN  IF jsonStartIndex >= 1 /\ jsonEndIndex >= jsonStartIndex
           THEN LET extracted == JsonParse(SubSeq(rawText, jsonStartIndex, jsonEndIndex))
                IN  IF extracted.ok /\ Truthy(extracted.v)
                    THEN ReplyResponse(extracted.v)
                    ELSE ParseFailed
           ELSE RawTextReply(rawText)
  ELSE ParseFailed

ChatComplete(answer) ==
  IF answer.kind = "throw" THEN ChatCaught
  ELSE IF ~LlmOk(answer.status) THEN LlmErrorResponse(answer.status)
  ELSE LET parsed == JsonParse(answer.body)
       IN  IF parsed.ok THEN ReplyResponse(parsed.v)
           ELSE RawTextResponse(answer.body)

-----------------------------------------------------------------------------
(* The page: the first DOMContentLoaded listener of public/script.js      *)
(* (lines 1-404).  A handler runs to its first await in one step; what    *)
(* follows the awaits of fetch and of response.json() runs in a second     *)
(* step, when the answer is there.  The handlers read no state between     *)
(* the two awaits, so they are taken together.  The answers are whatever   *)
(* a fetch may produce: a thrown error, or a response with its ok flag     *)
(* and a body that is JSON or not.                                         *)

(* The texts shown, by name *)
StatusVerifying == "verifying"

StatusBadFormat == "enter a valid 10-digit login code"

StatusSuccess == "login succeeded"

StatusFailed == "login failed, check the login code"

StatusNoServer == "cannot reach the server"

StatusInvalidResponse == "invalid server response"

InfoEnterCode == "enter a valid 10-digit login code to begin"

InfoLoggedIn == "login succeeded, you can start"

InfoLoginFirst == "log in before sending messages"

InfoLoginFirstNewChat == "log in first"

InfoResetting == "resetting the session"

InfoResetFailed == "reset failed"

InfoNewChatError == "error creating the new chat"

InfoNewChatStarted == "a new conversation has started"

Thinking == <<".", ".", ".">>

(* What the user may type into the login code input, empty at first *)
CodePadded == <<" ">> \o CodeA \o <<" ">>

TenWithLetter == SubSeq(CodeA, 1, 9) \o <<"a">>

LoginInputs == {CodePadded, TenWithLetter}

(* What the user may have in the message input *)
MsgHi == <<" ", "h", "i", "\n">>

MessageInputs == {<<>>, <<" ">>, MsgHi}

(* The parsed body of an answer: the properties the page reads.  success   *)
(* is the truth value of result.success.                                   *)
Result(success, error, reply) ==
  [kind |-> "object", success |-> success, error |-> error, reply |-> reply]

ErrText(tok) == Str(<<tok>>)

Thrown == [kind |-> "throw"]

Answer(ok, json) == [kind |-> "response", ok |-> ok, json |-> json]

Unparseable == [kind |-> "unparseable"]

LoginAnswers ==
  {Thrown,
   Answer(TRUE, Result(TRUE, Undefined, Undefined)),
   Answer(FALSE, Result(TRUE, Undefined, Undefined)),
   Answer(FALSE, Result(FALSE, ErrText("Invalid login code."), Undefined)),
   Answer(FALSE, Unparseable)}

ReplyText == <<"*", "a", "*">>

ChatAnswers ==
  {Thrown,
   Answer(TRUE, Result(FALSE, Undefined, Str(ReplyText))),
   Answer(FALSE, Result(FALSE, Undefined, Str(ReplyText))),
   Answer(TRUE, Result(FALSE, Undefined, Str(<<>>)))}

ResetAnswers ==
  {Thrown,
   Answer(TRUE, Result(TRUE, Undefined, Undefined)),
   Answer(FALSE, Result(TRUE, Undefined, Undefined)),
   Answer(FALSE, Result(FALSE, ErrText("API route not found"), Undefined)),
   Answer(FALSE, Unparseable)}

(* The text an error value is shown as *)
TextOf(v) == v.s[1]

(* displayMessage: the bubble appended to the chat window.  by is not in   *)
(* the page: it names the call of handleSendMessage that made the bubble   *)
(* (0 for the others).  No handler reads the text of a system bubble: it   *)
(* is kept as "...".                                                       *)
NoId == [t |-> "null"]

ThinkingId(ms) == [t |-> "ai-thinking-", ms |-> ms]

Rendered(text) == [kind |-> "html", of |-> text]

Plain(text) == [kind |-> "text", of |-> text]

displayMessage(text, sender, elementId, by) ==
  [sender |-> sender,
   content |-> IF sender = "ai" THEN Rendered(text)
               ELSE IF sender = "system" THEN Plain("...")
               ELSE Plain(text),
   id |-> elementId, by |-> by]

displayInfoMessage(text) == displayMessage(text, "system", NoId, 0)

(* updateMessage: document.getElementById answers the first element that   *)
(* has the id, and nothing is done when there is none.                     *)
updateMessage(window, elementId, newText) ==
  IF \E i \in DOMAIN window : window[i].id = elementId
  THEN LET first == CHOOSE i \in DOMAIN window :
                      /\ window[i].id = elementId
                      /\ \A j \in 1..(i - 1) : window[j].id # elementId
       IN  [window EXCEPT ![first].content = Rendered(newText)]
  ELSE window

(* A setChatEnabled that does not look at the content of the input. *)
setChatEnabled_IgnoresInput(enable, value) ==
  [messageInput |-> [value |-> value, disabled |-> ~enable],
   sendButton |-> [disabled |-> ~enable]]

(* setChatEnabled: the message input and the send button it leaves *)
setChatEnabled(enable, value) ==
  [messageInput |-> [value |-> value, disabled |-> ~enable],
   sendButton |-> [disabled |-> (~enable \/ Trim(value) = <<>>)]]

(* The calls of handleSendMessage whose bubbles or requests are still there *)
SendsAlive ==
  {chatWindow[i].by : i \in DOMAIN chatWindow} \cup
  {c.by : c \in {d \in BagToSet(pending) : d.fn = "handleSendMessage"}} \cup {0}

(* A name for the next call: the least one that is free *)
NextSend == CHOOSE n \in 1..(Cardinality(SendsAlive) + 1) :
              n \notin SendsAlive /\ \A m \in 1..(n - 1) : m \in SendsAlive

(* The handlers that wait for an answer: await suspends the call c *)
Awaiting(c) == pending (+) SetToBag({c})

Resumes(c) == pending (-) SetToBag({c})

(* Date.now(): the wall clock, which may answer the same value twice.     *)
(* Only whether two of its values are equal is read: a value is one that   *)
(* names a thinking bubble in the window or a waiting call, or the least   *)
(* other one, of two values in all.                                        *)
TimesAlive ==
  {chatWindow[i].id.ms : i \in {j \in DOMAIN chatWindow : chatWindow[j].sender = "ai"}} \cup
  {c.thinkingId.ms : c \in {d \in BagToSet(pending) : d.fn = "handleSendMessage"}}

Times == IF TimesAlive = {} THEN {0} ELSE {0, 1}

(* Initial Setup *)
PageLoaded ==
  /\ isLoggedIn = FALSE
  /\ userLoginCode = Null
  /\ loginCodeInput = [value |-> <<>>, disabled |-> FALSE]
  /\ loginButton = [disabled |-> FALSE]
  /\ loginStatus = ""
  /\ newChatButton = [disabled |-> FALSE]
  /\ messageInput = [value |-> <<>>, disabled |-> TRUE]
  /\ sendButton = [disabled |-> TRUE]
  /\ chatWindow = <<displayInfoMessage(InfoEnterCode)>>
  /\ pending = EmptyBag
  /\ currentAppState = Null

(* The user edits the login code input; this listener has no input event  *)
(* on it.                                                                  *)
TypeLoginCode ==
  \E v \in LoginInputs :
    /\ ~loginCodeInput.disabled
    /\ v # loginCodeInput.value
    /\ loginCodeInput' = [loginCodeInput EXCEPT !.value = v]
    /\ UNCHANGED <<isLoggedIn, userLoginCode, loginButton, loginStatus, newChatButton,
                   messageInput, sendButton, chatWindow, pending>>
    /\ UNCHANGED server
    /\ UNCHANGED currentAppState

(* The user edits the message input, and the input listener runs *)
TypeMessage ==
  \E v \in MessageInputs :
    /\ ~messageInput.disabled
    /\ v # messageInput.value
    /\ messageInput' = [messageInput EXCEPT !.value = v]
    /\ sendButton' = [disabled |-> (~isLoggedIn \/ Trim(v) = <<>>)]
    /\ UNCHANGED <<isLoggedIn, userLoginCode, loginCodeInput, loginButton, loginStatus,
                   newChatButton, chatWindow, pending>>
    /\ UNCHANGED server
    /\ UNCHANGED currentAppState

(* handleLogin, to its return or to the await of the fetch *)
handleLogin ==
  LET code == Trim(loginCodeInput.value)
  IN  /\ UNCHANGED <<isLoggedIn, userLoginCode, loginCodeInput, newChatButton,
                     messageInput, sendButton, chatWindow>>
      /\ UNCHANGED server
      /\ UNCHANGED currentAppState
      /\ IF ~IsTenDigits(code)
         THEN /\ loginStatus' = StatusBadFormat
              /\ loginButton' = [disabled |-> FALSE]
              /\ UNCHANGED pending
         ELSE /\ BagCardinality(pending) < MaxPending
              /\ loginStatus' = StatusVerifying
              /\ loginButton' = [disabled |-> TRUE]
              /\ pending' = Awaiting([fn |-> "handleLogin", code |-> Str(code)])

(* A click on the login button *)
ClickLogin == ~loginButton.disabled /\ handleLogin

(* Enter in the login code input *)
EnterLogin == ~loginCodeInput.disabled /\ handleLogin

(* The branch of handleLogin an answer leads to *)
LoginBranch(answer) ==
  IF answer.kind = "throw" THEN "catch"
  ELSE IF answer.json.kind = "unparseable" THEN "failed"
  ELSE IF answer.ok /\ answer.json.success THEN "success"
  ELSE "failed"

LoginFailureText(answer) ==
  IF LoginBranch(answer) = "catch" THEN StatusNoServer
  ELSE IF answer.json.kind = "unparseable" THEN StatusInvalidResponse
  ELSE IF Truthy(answer.json.error) THEN TextOf(answer.json.error)
  ELSE StatusFailed

(* handleLogin, from the answer of /api/login on *)
LoginAnsweredWith(c, answer) ==
    /\ c.fn = "handleLogin"
    /\ pending' = Resumes(c)
    /\ IF LoginBranch(answer) = "success"
       THEN /\ Len(chatWindow) < MaxBubbles
            /\ loginStatus' = StatusSuccess
            /\ isLoggedIn' = TRUE
            /\ userLoginCode' = c.code
            /\ messageInput' = setChatEnabled(TRUE, messageInput.value).messageInput
            /\ sendButton' = setChatEnabled(TRUE, messageInput.value).sendButton
            /\ loginCodeInput' = [loginCodeInput EXCEPT !.disabled = TRUE]
            /\ chatWindow' = Append(chatWindow, displayInfoMessage(InfoLoggedIn))
            /\ UNCHANGED loginButton
       ELSE /\ loginStatus' = LoginFailureText(answer)
            /\ isLoggedIn' = FALSE
            /\ messageInput' = setChatEnabled(FALSE, messageInput.value).messageInput
            /\ sendButton' = setChatEnabled(FALSE, messageInput.value).sendButton
            /\ loginButton' = [disabled |-> FALSE]
            /\ UNCHANGED <<userLoginCode, loginCodeInput, chatWindow>>
    /\ UNCHANGED newChatButton
    /\ UNCHANGED server
    /\ UNCHANGED currentAppState

LoginAnswered ==
  \E c \in BagToSet(pending), answer \in LoginAnswers : LoginAnsweredWith(c, answer)

(* handleSendMessage, to its return or to the await of the fetch *)
handleSendMessage(ms) ==
  LET messageText == Trim(messageInput.value)
      thinkingId == ThinkingId(ms)
      by == NextSend
  IN  /\ IF messageText = <<>> \/ ~isLoggedIn \/ ~Truthy(userLoginCode)
         THEN /\ IF ~isLoggedIn
                 THEN /\ Len(chatWindow) < MaxBubbles
                      /\ chatWindow' = Append(chatWindow, displayInfoMessage(InfoLoginFirst))
                 ELSE UNCHANGED chatWindow
              /\ UNCHANGED <<messageInput, sendButton, pending>>
         ELSE /\ Len(chatWindow) + 2 <= MaxBubbles
              /\ BagCardinality(pending) < MaxPending
              /\ chatWindow' = chatWindow \o
                   <<displayMessage(messageText, "user", NoId, by),
                     displayMessage(Thinking, "ai", thinkingId, by)>>
              /\ messageInput' = [messageInput EXCEPT !.value = <<>>]
              /\ sendButton' = [disabled |-> TRUE]
              /\ pending' = Awaiting([fn |-> "handleSendMessage", thinkingId |-> thinkingId,
                                      by |-> by, message |-> messageText,
                                      code |-> userLoginCode])
      /\ UNCHANGED <<isLoggedIn, userLoginCode, loginCodeInput, loginButton, loginStatus,
                     newChatButton>>
      /\ UNCHANGED server
      /\ UNCHANGED currentAppState

(* A click on the send button *)
ClickSend == ~sendButton.disabled /\ \E ms \in Times : handleSendMessage(ms)

(* Enter without Shift in the message input *)
EnterSend == ~messageInput.disabled /\ \E ms \in Times : handleSendMessage(ms)

(* if (response.ok && result.reply) of handleSendMessage *)
ReplyArrived(answer) ==
  /\ answer.kind = "response"
  /\ answer.json.kind = "object"
  /\ answer.ok
  /\ Truthy(answer.json.reply)

(* handleSendMessage, from the answer of /api/chat on *)
SendAnsweredWith(c, answer) ==
    /\ c.fn = "handleSendMessage"
    /\ pending' = Resumes(c)
    /\ chatWindow' = IF ReplyArrived(answer)
                     THEN updateMessage(chatWindow, c.thinkingId, answer.json.reply.s)
                     ELSE chatWindow
    /\ IF isLoggedIn
       THEN /\ messageInput' = [messageInput EXCEPT !.disabled = FALSE]
            /\ sendButton' = [disabled |-> (Trim(messageInput.value) = <<>>)]
       ELSE /\ messageInput' = [messageInput EXCEPT !.disabled = TRUE]
            /\ sendButton' = [disabled |-> TRUE]
    /\ UNCHANGED <<isLoggedIn, userLoginCode, loginCodeInput, loginButton, loginStatus,
                   newChatButton>>
    /\ UNCHANGED server
    /\ UNCHANGED currentAppState

SendAnswered ==
  \E c \in BagToSet(pending), answer \in ChatAnswers : SendAnsweredWith(c, answer)

(* handleNewChat, to its return or to the await of the fetch; a click on   *)
(* the new chat button                                                     *)
ClickNewChat ==
  /\ ~newChatButton.disabled
  /\ Len(chatWindow) < MaxBubbles
  /\ IF ~isLoggedIn \/ ~Truthy(userLoginCode)
     THEN /\ chatWindow' = Append(chatWindow, displayInfoMessage(InfoLoginFirstNewChat))
          /\ UNCHANGED <<newChatButton, pending>>
     ELSE /\ BagCardinality(pending) < MaxPending
          /\ newChatButton' = [disabled |-> TRUE]
          /\ chatWindow' = Append(chatWindow, displayInfoMessage(InfoResetting))
          /\ pending' = Awaiting([fn |-> "handleNewChat", code |-> userLoginCode])
  /\ UNCHANGED <<isLoggedIn, userLoginCode, loginCodeInput, loginButton, loginStatus,
                 messageInput, sendButton>>
  /\ UNCHANGED server
  /\ UNCHANGED currentAppState

(* A handleNewChat that does not look at what /api/reset answered. *)
ResetBranch_IgnoresVerdict(answer) ==
  IF answer.kind = "throw" THEN "catch"
  ELSE IF answer.json.kind # "object" THEN "catch"
  ELSE "success"

(* The branch of handleNewChat an answer leads to *)
ResetBranch(answer) ==
  IF answer.kind = "throw" THEN "catch"
  ELSE IF answer.json.kind # "object" THEN "catch"
  ELSE IF ~answer.ok \/ ~answer.json.success THEN "failed"
  ELSE "success"

(* A handleNewChat whose return on a rejected reset skips the finally block. *)
ResetAnsweredWith_NoFinally(c, answer) ==
    /\ c.fn = "handleNewChat"
    /\ pending' = Resumes(c)
    /\ newChatButton' = [disabled |-> (ResetBranch(answer) = "failed")]
    /\ CASE ResetBranch(answer) = "success" ->
              /\ chatWindow' = <<displayInfoMessage(InfoNewChatStarted)>>
              /\ messageInput' = setChatEnabled(TRUE, <<>>).messageInput
              /\ sendButton' = setChatEnabled(TRUE, <<>>).sendButton
         [] ResetBranch(answer) = "failed" ->
              /\ Len(chatWindow) < MaxBubbles
              /\ chatWindow' = Append(chatWindow, displayInfoMessage(InfoResetFailed))
              /\ UNCHANGED <<messageInput, sendButton>>
         [] ResetBranch(answer) = "catch" ->
              /\ Len(chatWindow) < MaxBubbles
              /\ chatWindow' = Append(chatWindow, displayInfoMessage(InfoNewChatError))
              /\ UNCHANGED <<messageInput, sendButton>>
    /\ UNCHANGED <<isLoggedIn, userLoginCode, loginCodeInput, loginButton, loginStatus>>
    /\ UNCHANGED server
    /\ UNCHANGED currentAppState

(* handleNewChat, from the answer of /api/reset on *)
ResetAnsweredWith(c, answer) ==
    /\ c.fn = "handleNewChat"
    /\ pending' = Resumes(c)
    /\ newChatButton' = [disabled |-> FALSE]
    /\ CASE ResetBranch(answer) = "success" ->
              /\ chatWindow' = <<displayInfoMessage(InfoNewChatStarted)>>
              /\ messageInput' = setChatEnabled(TRUE, <<>>).messageInput
              /\ sendButton' = setChatEnabled(TRUE, <<>>).sendButton
         [] ResetBranch(answer) = "failed" ->
              /\ Len(chatWindow) < MaxBubbles
              /\ chatWindow' = Append(chatWindow, displayInfoMessage(InfoResetFailed))
              /\ UNCHANGED <<messageInput, sendButton>>
         [] ResetBranch(answer) = "catch" ->
              /\ Len(chatWindow) < MaxBubbles
              /\ chatWindow' = Append(chatWindow, displayInfoMessage(InfoNewChatError))
              /\ UNCHANGED <<messageInput, sendButton>>
    /\ UNCHANGED <<isLoggedIn, userLoginCode, loginCodeInput, loginButton, loginStatus>>
    /\ UNCHANGED server
    /\ UNCHANGED currentAppState

ResetAnswered ==
  \E c \in BagToSet(pending), answer \in ResetAnswers : ResetAnsweredWith(c, answer)

-----------------------------------------------------------------------------
(* The workflow page.  Its handleLogin, its listeners, setChatEnabled and   *)
(* the parts of handleSendMessage and handleNewChat that come before the   *)
(* fetch are those above; what follows is what it does with an answer.     *)

InfoCompleted == "the workflow is completed, click new chat to start again"

(* The state object of a reply *)
AppState(status) == [t |-> "object", status |-> status]

ResultWithState(reply, state) ==
  [kind |-> "object", success |-> FALSE, error |-> Undefined, reply |-> reply,
   state |-> state]

(* What /api/chat may answer the workflow page *)
WorkflowAnswers ==
  {Thrown,
   Answer(FALSE, Result(FALSE, ErrText("Error communicating with AI service."), Undefined)),
   Answer(TRUE, Result(FALSE, Undefined, Str(ReplyText))),
   Answer(TRUE, ResultWithState(Str(ReplyText), AppState("AWAITING_OUTLINE_APPROVAL"))),
   Answer(TRUE, ResultWithState(Str(ReplyText), AppState("COMPLETED")))}

(* result.state || null *)
StateOf(answer) ==
  IF "state" \in DOMAIN answer.json THEN JsOr(answer.json.state, Null) ELSE Null

(* currentAppState && currentAppState.status === 'COMPLETED' *)
IsCompleted(state) == Truthy(state) /\ state.status = "COMPLETED"

(* The text the else branch and the catch block write into the bubble *)
ChatErrorText(answer) ==
  IF answer.kind = "throw" THEN <<"sorry, network error, the message was not sent">>
  ELSE IF answer.json.kind = "unparseable" THEN <<"sorry, an error occurred: ", StatusInvalidResponse>>
  ELSE IF Truthy(answer.json.error) THEN <<"sorry, an error occurred: ", TextOf(answer.json.error)>>
  ELSE <<"sorry, an error occurred: ", "error while talking to the AI service">>

(* handleSendMessage of the workflow page, from the answer of /api/chat on *)
WorkflowSendAnsweredWith(c, answer) ==
    /\ c.fn = "handleSendMessage"
    /\ pending' = Resumes(c)
    /\ LET replied == ReplyArrived(answer)
           state == IF replied THEN StateOf(answer) ELSE currentAppState
           window == updateMessage(chatWindow, c.thinkingId,
                                   IF replied THEN answer.json.reply.s
                                   ELSE ChatErrorText(answer))
       IN  /\ currentAppState' = state
           /\ IF replied /\ IsCompleted(state)
              THEN /\ Len(chatWindow) < MaxBubbles
                   /\ chatWindow' = Append(window, displayInfoMessage(InfoCompleted))
              ELSE chatWindow' = window
           /\ IF isLoggedIn /\ ~IsCompleted(state)
              THEN /\ messageInput' = [messageInput EXCEPT !.disabled = FALSE]
                   /\ sendButton' = [disabled |-> (Trim(messageInput.value) = <<>>)]
              ELSE /\ messageInput' = [messageInput EXCEPT !.disabled = TRUE]
                   /\ sendButton' = [disabled |-> TRUE]
    /\ UNCHANGED <<isLoggedIn, userLoginCode, loginCodeInput, loginButton, loginStatus,
                   newChatButton>>
    /\ UNCHANGED server

WorkflowSendAnswered ==
  \E c \in BagToSet(pending), answer \in WorkflowAnswers : WorkflowSendAnsweredWith(c, answer)

(* handleNewChat of the workflow page, from the answer of /api/reset on *)
WorkflowResetAnsweredWith(c, answer) ==
    /\ c.fn = "handleNewChat"
    /\ pending' = Resumes(c)
    /\ newChatButton' = [disabled |-> FALSE]
    /\ CASE ResetBranch(answer) = "success" ->
              /\ chatWindow' = <<displayInfoMessage(InfoNewChatStarted)>>
              /\ currentAppState' = Null
              /\ messageInput' = setChatEnabled(TRUE, <<>>).messageInput
              /\ sendButton' = setChatEnabled(TRUE, <<>>).sendButton
         [] ResetBranch(answer) = "failed" ->
              /\ Len(chatWindow) < MaxBubbles
              /\ chatWindow' = Append(chatWindow, displayInfoMessage(InfoResetFailed))
              /\ UNCHANGED <<messageInput, sendButton, currentAppState>>
         [] ResetBranch(answer) = "catch" ->
              /\ Len(chatWindow) < MaxBubbles
              /\ chatWindow' = Append(chatWindow, displayInfoMessage(InfoNewChatError))
              /\ UNCHANGED <<messageInput, sendButton, currentAppState>>
    /\ UNCHANGED <<isLoggedIn, userLoginCode, loginCodeInput, loginButton, loginStatus>>
    /\ UNCHANGED server

WorkflowResetAnswered ==
  \E c \in BagToSet(pending), answer \in ResetAnswers : WorkflowResetAnsweredWith(c, answer)

-----------------------------------------------------------------------------
(* onRequest, around the handlers *)

RouteNotFound == JsonResponse(404, [error |-> "API route not found"])

(* What the call of a handler ends in: a Response it returned, an error   *)
(* it threw, or a value it returned that is no Response.  The handlers of  *)
(* this file catch what they throw and return a Response on every path;    *)
(* onRequest provides for the other two.                                   *)
HandlerReturned(resp) == [kind |-> "response", resp |-> resp]

HandlerThrew == [kind |-> "throw"]

HandlerValue == [kind |-> "value"]

HandlerFailures == {HandlerThrew, HandlerValue}

InvalidHandlerResponse ==
  JsonResponse(500, [error |-> "Internal Server Error: Invalid handler response"])

InternalServerError ==
  JsonResponse(500, [error |-> "Internal Server Error", details |-> "..."])

(* An onRequest that hands on what it caught as if it were an answer. *)
Guarded_Swallows(result) ==
  IF result.kind = "response" THEN result.resp
  ELSE JsonResponse(200, [error |-> "Internal Server Error", details |-> "..."])

(* The try/catch of onRequest and its check of response instanceof        *)
(* Response: the response that goes on to the CORS headers                 *)
Guarded(result) ==
  IF result.kind = "throw" THEN InternalServerError
  ELSE IF result.kind # "response" THEN InvalidHandlerResponse
  ELSE result.resp

(* A final response without the CORS headers. *)
WithCors_None(resp) == resp

(* The CORS headers set on the final response; status and body are kept. *)
WithCors(resp) == [resp EXCEPT !.cors = TRUE]

StartsWithApi(path) == path \in {"/api/login", "/api/chat", "/api/reset"}

Served(r, out) ==
  [kind |-> "served", req |-> r, resp |-> out.resp, kvReads |-> out.kvReads,
   llm |-> out.llm, answers |-> out.answers]

Init ==
  /\ kv \in KvStores
  /\ env \in Envs
  /\ inflight = {}
  /\ last = [kind |-> "none"]
  /\ PageLoaded

(* A request outside /api/ *)
Outside ==
  \E r \in OtherRequests :
    /\ ~StartsWithApi(r.path)
    /\ last' = Served(r, Returned(TextResponse(404, "Not Found"), <<>>))
    /\ UNCHANGED <<kv, env, inflight>>
    /\ UNCHANGED page

(* An OPTIONS request under /api/ *)
Preflight ==
  \E r \in OtherRequests :
    /\ StartsWithApi(r.path) /\ r.method = "OPTIONS"
    /\ last' = Served(r, Returned(handleOptions, <<>>))
    /\ UNCHANGED <<kv, env, inflight>>
    /\ UNCHANGED page

(* Any other path or method under /api/ *)
Unrouted ==
  \E r \in OtherRequests :
    /\ StartsWithApi(r.path) /\ r.method # "OPTIONS"
    /\ last' = Served(r, Returned(WithCors(Guarded(HandlerReturned(RouteNotFound))), <<>>))
    /\ UNCHANGED <<kv, env, inflight>>
    /\ UNCHANGED page

(* POST /api/login *)
Login ==
  \E r \in LoginRequests :
    LET out == handleLoginRequest(r)
    IN  /\ last' = Served(r, [out EXCEPT
                                 !.resp = WithCors(Guarded(HandlerReturned(out.resp)))])
        /\ UNCHANGED <<kv, env, inflight>>
        /\ UNCHANGED page

(* POST /api/chat that is answered before any fetch of the LLM API *)
ChatAnswered ==
  \E r \in ChatRequests :
    LET p == ChatPrepare(r)
    IN  /\ p.done
        /\ last' = Served(r, [p.out EXCEPT
                                 !.resp = WithCors(Guarded(HandlerReturned(p.out.resp)))])
        /\ UNCHANGED <<kv, env, inflight>>
        /\ UNCHANGED page

(* POST /api/chat that passes every check: the fetch of the LLM API is sent *)
ChatFetch ==
  \E r \in ChatRequests :
    LET p == ChatPrepare(r)
    IN  /\ ~p.done
        /\ Cardinality(inflight) < MaxInflight
        /\ p.call \notin inflight
        /\ inflight' = inflight \cup {p.call}
        /\ UNCHANGED <<kv, env, last>>
        /\ UNCHANGED page

(* The LLM API answers (or the fetch throws), and the chat request is answered *)
ChatFetchDone ==
  \E c \in inflight, answer \in LlmAnswers :
    /\ inflight' = inflight \ {c}
    /\ last' = Served(c.req,
                     Outcome(WithCors(Guarded(HandlerReturned(ChatComplete(answer)))),
                             c.kvReads, <<c.messages>>,
                             <<[kind |-> answer.kind, status |-> answer.status]>>))
    /\ kv' = KvAfterChat(c.req.body.code.s)
    /\ UNCHANGED env
    /\ UNCHANGED page

Next ==
  \/ Outside
  \/ Preflight
  \/ Unrouted
  \/ Login
  \/ ChatAnswered
  \/ ChatFetch
  \/ ChatFetchDone

Spec == Init /\ [][Next]_vars

(* onRequest around handlers that may also throw or return a value that   *)
(* is no Response                                                          *)
HandlerFailedWith(r, result) ==
  /\ last' = Served(r, Returned(WithCors(Guarded(result)), <<>>))
  /\ UNCHANGED <<kv, env, inflight>>
  /\ UNCHANGED page

(* The requests a failing handler is called for: one for each handler *)
RoutedRequests ==
  {Req("/api/login", "POST", "application/json; charset=utf-8", Body(Str(CodeA), Undefined)),
   Req("/api/chat", "POST", "application/json; charset=utf-8", Body(Str(CodeA), Str(MsgTagged)))}

HandlerFailed ==
  \E r \in RoutedRequests, result \in HandlerFailures : HandlerFailedWith(r, result)

RouterNext == Next \/ HandlerFailed

RouterSpec == Init /\ [][RouterNext]_vars

(* The page alone, with answers of every kind to its requests *)
PageInit ==
  /\ kv = [c \in Codes |-> NULL]
  /\ env = [KV_NAMESPACE |-> TRUE, OPENAI_API_KEY |-> TRUE, API_ENDPOINT |-> ""]
  /\ inflight = {}
  /\ last = [kind |-> "none"]
  /\ PageLoaded

PageNext ==
  \/ TypeLoginCode
  \/ TypeMessage
  \/ ClickLogin
  \/ EnterLogin
  \/ LoginAnswered
  \/ ClickSend
  \/ EnterSend
  \/ SendAnswered
  \/ ClickNewChat
  \/ ResetAnswered

PageSpec == PageInit /\ [][PageNext]_vars

(* The workflow page alone, with answers of every kind to its requests *)
WorkflowNext ==
  \/ TypeLoginCode
  \/ TypeMessage
  \/ ClickLogin
  \/ EnterLogin
  \/ LoginAnswered
  \/ ClickSend
  \/ EnterSend
  \/ WorkflowSendAnswered
  \/ ClickNewChat
  \/ WorkflowResetAnswered

WorkflowSpec == PageInit /\ [][WorkflowNext]_vars

-----------------------------------------------------------------------------
(* Properties *)

ServedLogin == last.kind = "served" /\ IsLoginRoute(last.req)

ServedChat == last.kind = "served" /\ IsChatRoute(last.req)

HasCode(r) == r.body.kind = "object" /\ r.body.code.t = "string" /\ r.body.code.s # <<>>

CodeOf(r) == r.body.code.s

InKv(c) == c \in DOMAIN kv /\ kv[c] # NULL

HistoryOf(v) == IF v.t = "state" THEN v.conversation_history ELSE <<>>

HoldsHistory(c, h) == c \in DOMAIN kv /\ kv[c].t = "state" /\ kv[c].conversation_history = h

(* C1: the fetch of the LLM API is sent for a chat request only after the  *)
(* lookup of the request's own code answered a value that is not null; a   *)
(* chat request whose lookup answered null is answered 401 'Invalid or     *)
(* expired login code.' and no fetch is made for it.                       *)
AccessGate ==
  /\ \A c \in inflight :
       \E i \in DOMAIN c.kvReads :
         c.kvReads[i].key = CodeOf(c.req) /\ c.kvReads[i].value # NULL
  /\ ServedChat =>
       /\ last.llm # <<>> =>
            \E i \in DOMAIN last.kvReads :
              last.kvReads[i].key = CodeOf(last.req) /\ last.kvReads[i].value # NULL
       /\ (\E i \in DOMAIN last.kvReads : last.kvReads[i].value = NULL) =>
            /\ last.resp.status = 401
            /\ last.resp.body = [error |-> "Invalid or expired login code."]
            /\ last.llm = <<>>

(* A chat request was turned away at the gate. *)
AccessGateWitness ==
  /\ ServedChat
  /\ last.kvReads # <<>> /\ last.kvReads[1].value = NULL
  /\ last.resp.status = 401

HistoryPersisted ==
  (ServedChat /\ last.resp.status = 200)
  => HoldsHistory(CodeOf(last.req),
                  HistoryOf(last.kvReads[1].value)
                  \o <<UserTurn(last.req.body.message.s),
                       AssistantTurn(IF last.resp.body.reply.t = "string"
                                     THEN last.resp.body.reply.s ELSE <<"@value">>)>>)

(* C4: the messages sent to the LLM API are the system prompt, then the    *)
(* whole history stored for the code, then the new user message.           *)
LlmGetsHistory ==
  \A c \in inflight :
    \E m \in {c.req.body.message.s, cleanUserMessage(c.req.body.message.s)} :
      c.messages = <<[role |-> "system", content |-> SystemPrompt]>>
                   \o HistoryOf(c.kvReads[1].value) \o <<UserTurn(m)>>

(* C5: POST /api/reset with a code that is in KV is answered 200 with      *)
(* success true, and the history stored for the code is empty afterwards.  *)
ResetClearsHistory ==
  (/\ last.kind = "served"
   /\ last.req.path = "/api/reset" /\ last.req.method = "POST"
   /\ HasCode(last.req) /\ InKv(CodeOf(last.req)))
  => /\ last.resp.status = 200
     /\ HasField(last.resp.body, "success") /\ last.resp.body.success = TRUE
     /\ HoldsHistory(CodeOf(last.req), <<>>)

(* C6: a login with a well-formed code that has no entry in KV, or whose   *)
(* entry is no valid state, leaves an initial state with an empty history  *)
(* in KV for the code and is answered with success.                        *)
LoginInitialisesState ==
  (/\ ServedLogin
   /\ CtIncludesJson(last.req.ctype)
   /\ HasCode(last.req) /\ IsTenDigits(CodeOf(last.req))
   /\ env.KV_NAMESPACE
   /\ last.kvReads # <<>> /\ last.kvReads[1].value.t # "state")
  => /\ last.resp.status = 200
     /\ HasField(last.resp.body, "success") /\ last.resp.body.success = TRUE
     /\ HoldsHistory(CodeOf(last.req), <<>>)

(* C7: a login whose code is not exactly ten decimal digits is answered    *)
(* with a failure, whatever KV holds.                                      *)
BackendValidatesFormat ==
  (ServedLogin /\ HasCode(last.req) /\ ~IsTenDigits(CodeOf(last.req)))
  => last.resp.status # 200

(* C8: a step that handles a request carrying one code reads KV only at    *)
(* that code, and for every other code it leaves as they were the entry    *)
(* in KV and the chat requests in flight with what they read and sent      *)
(* (with the environment, all that the answer to a request for that other  *)
(* code is computed from).                                                 *)
StepCodes ==
  {CodeOf(c.req) : c \in (inflight' \ inflight) \cup (inflight \ inflight')}
  \cup (IF last' # last /\ HasCode(last'.req) THEN {CodeOf(last'.req)} ELSE {})

IsolatedStep ==
  /\ \A c \in inflight' \ inflight :
       \A i \in DOMAIN c.kvReads : c.kvReads[i].key = CodeOf(c.req)
  /\ last' # last =>
       \A i \in DOMAIN last'.kvReads : last'.kvReads[i].key = CodeOf(last'.req)
  /\ env' = env
  /\ \A b \in Codes \ StepCodes :
       /\ kv'[b] = kv[b]
       /\ {c \in inflight' : CodeOf(c.req) = b} = {c \in inflight : CodeOf(c.req) = b}

SessionIsolation == [][IsolatedStep]_vars

(* A chat request for one code is answered while a chat request for        *)
(* another code waits for the LLM API.                                     *)
SessionIsolationWitness ==
  /\ ServedChat /\ last.llm # <<>>
  /\ \E c \in inflight : CodeOf(c.req) # CodeOf(last.req)

(* C9: every response of the chat handler is either 200 with a reply that  *)
(* is not empty, or another status with an error.                          *)
ChatResponseShape ==
  ServedChat =>
    IF last.resp.status = 200
    THEN HasField(last.resp.body, "reply") /\ Truthy(last.resp.body.reply)
    ELSE HasField(last.resp.body, "error")

(* A 200 that came from the raw text of an LLM answer that is no JSON. *)
ChatResponseShapeWitness ==
  /\ ServedChat /\ last.resp.status = 200
  /\ HasField(last.resp.body, "warning")

-----------------------------------------------------------------------------
(* Properties of the page *)

(* The calls of handleLogin that wait for an answer *)
LoginsPending == {c \in BagToSet(pending) : c.fn = "handleLogin"}

(* handleLogin is called *)
LoginCalled == ClickLogin \/ EnterLogin

(* The login status shows an error text *)
ErrorShown == loginStatus \notin {"", StatusVerifying, StatusSuccess}

IsSuccessAnswer(answer) ==
  /\ answer.kind = "response"
  /\ answer.json.kind = "object"
  /\ answer.ok
  /\ answer.json.success

LoginLockedStep ==
  /\ \A c \in LoginsPending, answer \in LoginAnswers :
       (IsSuccessAnswer(answer) /\ LoginAnsweredWith(c, answer)) =>
         (loginCodeInput'.disabled /\ loginButton'.disabled)
  /\ (loginCodeInput.disabled /\ loginButton.disabled) =>
       (loginCodeInput'.disabled /\ loginButton'.disabled)

LoginLockedAfterSuccess == [][LoginLockedStep]_vars

(* C13: a login attempt that fails (the format check, a rejection, a body *)
(* that is not JSON, a thrown fetch) leaves the login button enabled, an   *)
(* error text in the login status and the message input disabled.          *)
LoginFailedStep ==
  LET badFormat == LoginCalled /\ pending' = pending
      rejected == \E c \in LoginsPending, answer \in LoginAnswers :
                    ~IsSuccessAnswer(answer) /\ LoginAnsweredWith(c, answer)
  IN  (badFormat \/ rejected) =>
        /\ ~loginButton'.disabled
        /\ ErrorShown'
        /\ messageInput'.disabled

LoginFailureRecoverable == [][LoginFailedStep]_vars

(* C14: the send button is enabled only if the user is logged in and the  *)
(* trimmed content of the message input is not empty.                      *)
SendButtonRule ==
  ~sendButton.disabled => (isLoggedIn /\ Trim(messageInput.value) # <<>>)

(* The send button is enabled, with a message typed after a first one was  *)
(* sent.                                                                   *)
SendButtonRuleWitness ==
  /\ ~sendButton.disabled
  /\ messageInput.value = MsgHi
  /\ \E i \in DOMAIN chatWindow : chatWindow[i].sender = "user"

(* C15: a sent message shows the user bubble, then the '...' bubble, and  *)
(* the request waits; a reply that arrives for a request goes into the     *)
(* '...' bubble that request made, if it is still in the window, and no    *)
(* other bubble changes, whatever the order of the answers.                *)
ReplyStep ==
  /\ \A c \in BagToSet(pending) \ LoginsPending, answer \in ChatAnswers :
       (c.fn = "handleSendMessage" /\ ReplyArrived(answer) /\ SendAnsweredWith(c, answer)) =>
         /\ DOMAIN chatWindow' = DOMAIN chatWindow
         /\ \A i \in DOMAIN chatWindow :
              IF chatWindow[i].sender = "ai" /\ chatWindow[i].by = c.by
              THEN chatWindow'[i] =
                     [chatWindow[i] EXCEPT !.content = Rendered(answer.json.reply.s)]
              ELSE chatWindow'[i] = chatWindow[i]
  /\ ((ClickSend \/ EnterSend) /\ pending' # pending) =>
       /\ Len(chatWindow') = Len(chatWindow) + 2
       /\ SubSeq(chatWindow', 1, Len(chatWindow)) = chatWindow
       /\ chatWindow'[Len(chatWindow) + 1].sender = "user"
       /\ chatWindow'[Len(chatWindow) + 1].content = Plain(Trim(messageInput.value))
       /\ chatWindow'[Len(chatWindow) + 2].sender = "ai"
       /\ chatWindow'[Len(chatWindow) + 2].content = Rendered(Thinking)

ReplyInOwnPlaceholder == [][ReplyStep]_vars

(* C16: handleNewChat empties the chat window and the message input when  *)
(* /api/reset answered ok with success: true, and only then; on any other  *)
(* answer, and up to the request, it keeps every bubble shown and the      *)
(* message input, and appends one system bubble.                           *)
KeepsBubbles ==
  /\ Len(chatWindow') = Len(chatWindow) + 1
  /\ SubSeq(chatWindow', 1, Len(chatWindow)) = chatWindow
  /\ chatWindow'[Len(chatWindow')].sender = "system"
  /\ messageInput'.value = messageInput.value

NewChatStep ==
  /\ \A c \in BagToSet(pending) :
       (c.fn = "handleNewChat" /\ pending' = Resumes(c)) =>
         \A answer \in ResetAnswers :
           ResetAnsweredWith(c, answer) =>
             IF IsSuccessAnswer(answer)
             THEN /\ Len(chatWindow') = 1
                  /\ chatWindow'[1].sender = "system"
                  /\ messageInput'.value = <<>>
             ELSE KeepsBubbles
  /\ ClickNewChat => KeepsBubbles

NewChatClearsOnConfirmedReset == [][NewChatStep]_vars

(* A reset was confirmed after a login: the window holds the one bubble    *)
(* that follows the emptying.                                              *)
NewChatClearsWitness ==
  /\ Truthy(userLoginCode)
  /\ Len(chatWindow) = 1
  /\ messageInput.value = <<>>
  /\ ~newChatButton.disabled

(* C17: a call of handleLogin adds a request to /api/login, with the      *)
(* trimmed input as its code, exactly when the trimmed input is 10 decimal *)
(* digits; otherwise it adds none and leaves isLoggedIn and userLoginCode  *)
(* as they are.                                                            *)
FormatCheckStep ==
  LET code == Trim(loginCodeInput.value)
      wellFormed == Len(code) = CodeLen /\ \A i \in DOMAIN code : code[i] \in Digits
  IN  /\ (loginStatus' \in {StatusBadFormat, StatusVerifying} /\ LoginCalled) =>
            /\ isLoggedIn' = isLoggedIn
            /\ userLoginCode' = userLoginCode
            /\ IF wellFormed
               THEN pending' = pending (+) SetToBag({[fn |-> "handleLogin", code |-> Str(code)]})
               ELSE pending' = pending
      /\ (pending' # pending /\
            \E c \in BagToSet(pending') :
              c.fn = "handleLogin" /\ CopiesIn(c, pending') > CopiesIn(c, pending)) =>
           (LoginCalled /\ wellFormed)

FrontEndFormatCheck == [][FormatCheckStep]_vars

(* The format check turned an input of ten characters that are not all    *)
(* digits away while a request with a well-formed code waits.              *)
FrontEndFormatCheckWitness ==
  /\ loginStatus = StatusBadFormat
  /\ loginCodeInput.value = TenWithLetter
  /\ LoginsPending # {}

-----------------------------------------------------------------------------
(* Properties of onRequest and of the order of the checks *)

(* The body is an object with a truthy message and a truthy code *)
HasMessageAndCode(r) ==
  r.body.kind = "object" /\ Truthy(r.body.message) /\ Truthy(r.body.code)

(* The base URL handleChatRequest builds the URL of the LLM API from *)
BaseUrlOf(e) == IF e.API_ENDPOINT # "" THEN e.API_ENDPOINT ELSE DefaultBaseUrl

(* The status the claimed order of checks gives a chat request: that of   *)
(* the first check that fails, 0 where every check passes.                 *)
FirstFailingCheck(r) ==
  IF ~CtIncludesJson(r.ctype) THEN 400
  ELSE IF r.body.kind = "invalid" THEN 400
  ELSE IF ~HasMessageAndCode(r) THEN 400
  ELSE IF ~env.KV_NAMESPACE THEN 500
  ELSE IF ~InKv(CodeOf(r)) THEN 401
  ELSE IF ~env.OPENAI_API_KEY THEN 500
  ELSE IF ~UrlOk(BaseUrlOf(env)) THEN 500
  ELSE 0

(* C18: a chat request is answered by the first failing check of content  *)
(* type (400), JSON parse (400), message and code present (400), KV        *)
(* binding (500), code in KV (401), API key (500), endpoint URL (500), and *)
(* the LLM is called only when all pass; a request that fails one of the   *)
(* first three is answered 400 without a KV read or an LLM call.           *)
ChatValidationOrder ==
  /\ \A c \in inflight : FirstFailingCheck(c.req) = 0
  /\ ServedChat =>
       LET r == last.req
           failed == FirstFailingCheck(r)
       IN  /\ failed # 0 => (last.resp.status = failed /\ last.llm = <<>>)
           /\ failed = 0 => last.llm # <<>>
           /\ (~CtIncludesJson(r.ctype) \/ r.body.kind = "invalid" \/ ~HasMessageAndCode(r))
                => (last.resp.status = 400 /\ last.kvReads = <<>> /\ last.llm = <<>>)
           /\ (failed = 500 /\ ~env.KV_NAMESPACE) => last.kvReads = <<>>

(* The status and the body of a response, without its headers *)
StatusAndBody(resp) == [status |-> resp.status, kind |-> resp.kind, body |-> resp.body]

(* A Response: a status code with a body of one of the kinds *)
IsResponse(resp) ==
  /\ resp.status \in 200..599
  /\ resp.kind \in {"json", "text", "empty"}

(* The responses handleChatRequest may return for a request *)
ChatHandlerResponses(r) ==
  IF ChatPrepare(r).done
  THEN {StatusAndBody(ChatPrepare(r).out.resp)}
  ELSE {StatusAndBody(ChatComplete(answer)) : answer \in LlmAnswers}

CorsOnEveryApiAnswer ==
  last.kind = "served" =>
    LET r == last.req
        answer == StatusAndBody(last.resp)
    IN  /\ (StartsWithApi(r.path) /\ r.method # "OPTIONS") =>
              /\ last.resp.cors
              /\ IsLoginRoute(r) => answer = StatusAndBody(handleLoginRequest(r).resp)
              /\ IsChatRoute(r) => answer \in ChatHandlerResponses(r)
              /\ (~IsLoginRoute(r) /\ ~IsChatRoute(r)) => answer = StatusAndBody(RouteNotFound)
        /\ ~StartsWithApi(r.path) =>
              /\ ~last.resp.cors
              /\ answer = [status |-> 404, kind |-> "text", body |-> [text |-> "Not Found"]]

(* An error of the LLM API was passed on to the client of /api/chat, with  *)
(* the headers.                                                            *)
CorsOnEveryApiAnswerWitness ==
  /\ ServedChat
  /\ last.llm # <<>>
  /\ last.resp.status = 429
  /\ last.resp.cors

(* An OPTIONS request under /api/ *)
IsPreflight(r) == StartsWithApi(r.path) /\ r.method = "OPTIONS"

(* C21: an OPTIONS request to any path under /api/ is answered 204 with   *)
(* the CORS headers and Access-Control-Max-Age 86400 and an empty body;    *)
(* the step that answers it reads no key of KV, sends nothing to the LLM   *)
(* API and leaves KV and the calls in flight as they are.                  *)
PreflightStep ==
  (last' # last /\ IsPreflight(last'.req)) =>
    /\ last'.resp.status = 204
    /\ last'.resp.kind = "empty"
    /\ last'.resp.cors
    /\ last'.resp.maxAge
    /\ last'.kvReads = <<>>
    /\ last'.llm = <<>>
    /\ last'.answers = <<>>
    /\ kv' = kv
    /\ inflight' = inflight

PreflightNoSideEffects == [][PreflightStep]_vars

(* A preflight for /api/chat, with a code that is a key of KV, was         *)
(* answered while a call of the LLM API is in flight.                      *)
PreflightNoSideEffectsWitness ==
  /\ last.kind = "served"
  /\ IsPreflight(last.req)
  /\ last.req.path = "/api/chat"
  /\ InKv(CodeOf(last.req))
  /\ inflight # {}

(* C22: no step of the backend (a login, a chat before or after the call  *)
(* of the LLM API, a preflight, an unrouted request) changes KV, and the   *)
(* request a login step has answered is answered the same way again after  *)
(* the step.                                                               *)
KvReadOnlyStep ==
  /\ kv' = kv
  /\ (last' # last /\ IsLoginRoute(last'.req)) =>
       \A r \in LoginRequests :
         r = last'.req =>
           StatusAndBody(last'.resp) = StatusAndBody(handleLoginRequest(r).resp)'

-----------------------------------------------------------------------------
(* Properties of the page: one request at a time *)

(* The calls of handleSendMessage that wait for an answer *)
SendsPending == {c \in BagToSet(pending) : c.fn = "handleSendMessage"}

(* C23: while a call of handleSendMessage waits for the answer of         *)
(* /api/chat the send button is disabled, and no second call waits, the    *)
(* user typing into the message input and pressing Enter included.         *)
SendButtonHeld ==
  /\ SendsPending # {} => sendButton.disabled
  /\ Cardinality(SendsPending) <= 1

(* C24: while a call of handleLogin waits for the answer of /api/login    *)
(* the login button is disabled, and no second call waits, whether the     *)
(* calls come from clicks or from Enter in the login code input.           *)
OneLoginAtATime ==
  /\ LoginsPending # {} => loginButton.disabled
  /\ BagCardinality(pending) - BagCardinality(pending (-) SetToBag(LoginsPending)) <= 1

(* C25: a step taken with isLoggedIn true leaves it true and leaves       *)
(* userLoginCode what it is, in every order of clicks, Enter presses and   *)
(* answers; a request of /api/chat or /api/reset the step issues carries   *)
(* userLoginCode.                                                          *)
LoginMonotoneStep ==
  isLoggedIn =>
    /\ isLoggedIn'
    /\ userLoginCode' = userLoginCode
    /\ \A c \in BagToSet(pending') \ BagToSet(pending) :
         c.fn \in {"handleSendMessage", "handleNewChat"} => c.code = userLoginCode

LoginMonotone == [][LoginMonotoneStep]_vars

-----------------------------------------------------------------------------
(* Properties of the page: what a request leaves behind *)

(* C26: when handleSendMessage has processed what /api/chat answered (a   *)
(* reply, an error status, an answer without a reply, a fetch that threw), *)
(* the '...' bubble the call made shows '...' no more: it shows the reply  *)
(* when one arrived, and another text otherwise.  No later step of the     *)
(* call writes the bubble.                                                 *)
PlaceholderStep ==
  \A c \in SendsPending :
    (pending' = Resumes(c)) =>
      \A answer \in ChatAnswers :
        SendAnsweredWith(c, answer) =>
          \A i \in DOMAIN chatWindow' :
            (chatWindow'[i].sender = "ai" /\ chatWindow'[i].by = c.by) =>
              /\ chatWindow'[i].content # Rendered(Thinking)
              /\ ReplyArrived(answer) =>
                   chatWindow'[i].content = Rendered(answer.json.reply.s)

NoPlaceholderLeft == [][PlaceholderStep]_vars

(* The calls of handleNewChat that wait for an answer *)
ResetsPending == {c \in BagToSet(pending) : c.fn = "handleNewChat"}

(* C27: while a request of /api/reset waits the new chat button is        *)
(* disabled; a step taken while the user is not logged in issues no        *)
(* request of /api/reset; and the step that processes what /api/reset      *)
(* answered (a success, a rejection, a body that is not JSON, a fetch that *)
(* threw) leaves the button enabled.                                       *)
NewChatButtonStep ==
  /\ newChatButton'.disabled \/ \A c \in BagToSet(pending') : c.fn # "handleNewChat"
  /\ pending' = pending \/
       /\ (~isLoggedIn \/ ~Truthy(userLoginCode)) =>
            \A c \in BagToSet(pending') :
              c.fn = "handleNewChat" => CopiesIn(c, pending') <= CopiesIn(c, pending)
       /\ \A c \in ResetsPending : (pending' = Resumes(c)) => ~newChatButton'.disabled

NewChatButtonRecovers == [][NewChatButtonStep]_vars

(* A request of /api/reset waits, after a message was sent *)
NewChatButtonRecoversWitness ==
  /\ ResetsPending # {}
  /\ newChatButton.disabled
  /\ \E i \in DOMAIN chatWindow : chatWindow[i].sender = "user"

-----------------------------------------------------------------------------
(* Properties of the workflow page *)

(* A reply that carries state.status = 'COMPLETED' *)
CarriesCompleted(answer) == ReplyArrived(answer) /\ IsCompleted(StateOf(answer))

(* The message input and the send button are disabled *)
InputLocked == messageInput.disabled /\ sendButton.disabled

(* C28: the step that processes a reply with state.status = 'COMPLETED'   *)
(* leaves the message input and the send button disabled, and once they   *)
(* are disabled after such a reply no step that processes what /api/chat   *)
(* answered to a request still outstanding enables either of them.         *)
CompletedStep ==
  \A c \in SendsPending :
    (pending' = Resumes(c)) =>
      \A answer \in WorkflowAnswers :
        WorkflowSendAnsweredWith(c, answer) =>
          /\ CarriesCompleted(answer) => InputLocked'
          /\ (IsCompleted(currentAppState) /\ InputLocked) => InputLocked'

CompletedLocksInput == [][CompletedStep]_vars

====
